---- MODULE Spec2Model ----
(***************************************************************************)
(* set-version.py: the version propagator of ltzf-backend.                 *)
(*                                                                         *)
(* The script loads variables.toml and calls replace(file, pattern,        *)
(* replacement) seven times, at the source lines 20, 21, 22, 26, 27, 29    *)
(* and 30.  A rule is named by the source line of its call, and the        *)
(* program counter pc is the source line of the statement to run next.     *)
(*                                                                         *)
(* A text is a sequence of tokens.  A token is one character of the file,  *)
(* except that the words the patterns spell out ("LABEL ", "version",      *)
(* "OPENAPI_GENERATOR_VERSION", "SPEC_PATH") are one token each.  The      *)
(* regular expressions are matched token by token with Python's rules:     *)
(* leftmost match, greedy quantifiers with backtracking, "$" the end       *)
(* anchor.  Configuration values hold digits, dots and letters, so the     *)
(* replacement template of re.sub holds no backslash escape to expand.     *)
(* The script is read as Python 3.12 or later (the nested quotes of lines  *)
(* 26-30 do not compile before).                                           *)
(***************************************************************************)
EXTENDS Integers, Sequences, FiniteSets, TLC

VARIABLES cfg, disk, disk0, pre, pc, err, run, out, reads, writes, reordered

vars == <<cfg, disk, disk0, pre, pc, err, run, out, reads, writes, reordered>>

----------------------------------------------------------------------------
(* Bounds of the model *)

\* the number of lines the five target files hold together before the run
MaxLines == 2

----------------------------------------------------------------------------
(* Tokens *)

Q == "\""
SP == " "
NL == "\n"
DOT == "."
DOLLAR == "$"
LABEL == "LABEL "
VERSION == "version"
EQ == "="
GENVER == "OPENAPI_GENERATOR_VERSION"
SPECPATH == "SPEC_PATH"
ANYCHAR == "x"

Digits == {"1", "2"}
Whitespace == {SP, NL}

Ver(a, b, c) == a \o <<DOT>> \o b \o <<DOT>> \o c

V111 == Ver(<<"1">>, <<"1">>, <<"1">>)
V211 == Ver(<<"2">>, <<"1">>, <<"1">>)
V1211 == Ver(<<"1", "2">>, <<"1">>, <<"1">>)
V12 == <<"1", DOT, "2">>
V111x == V111 \o <<ANYCHAR>>

----------------------------------------------------------------------------
(* The regular expressions: a pattern is a sequence of elements *)

Lit(t) == [k |-> "one", s |-> {t}]
Plus(S) == [k |-> "plus", s |-> S]
Star(S) == [k |-> "star", s |-> S]
EndAnchor == [k |-> "eos", s |-> {}]

\* \d+\.\d+\.\d+
SemVer == <<Plus(Digits), Lit(DOT), Plus(Digits), Lit(DOT), Plus(Digits)>>

\* r"LABEL version=\"\d+\.\d+\.\d+\""
LabelPattern == <<Lit(LABEL), Lit(VERSION), Lit(EQ), Lit(Q)>> \o SemVer \o <<Lit(Q)>>

\* r"version\s*=\s*\"\d+\.\d+\.\d+\""
CargoPattern ==
    <<Lit(VERSION), Star(Whitespace), Lit(EQ), Star(Whitespace), Lit(Q)>>
        \o SemVer \o <<Lit(Q)>>

\* r"$OPENAPI_GENERATOR_VERSION=\"\d+\.\d+\.\d+\"": the "$" is the anchor
Ps1GenPattern == <<EndAnchor, Lit(GENVER), Lit(EQ), Lit(Q)>> \o SemVer \o <<Lit(Q)>>

\* r"$SPEC_PATH=\"\d+\.\d+\.\d+\""
Ps1SpecPattern == <<EndAnchor, Lit(SPECPATH), Lit(EQ), Lit(Q)>> \o SemVer \o <<Lit(Q)>>

\* r"OPENAPI_GENERATOR_VERSION=\"\d+\.\d+\.\d+\""
ShGenPattern == <<Lit(GENVER), Lit(EQ), Lit(Q)>> \o SemVer \o <<Lit(Q)>>

\* r"SPEC_PATH=\"\d+\.\d+\.\d+\""
ShSpecPattern == <<Lit(SPECPATH), Lit(EQ), Lit(Q)>> \o SemVer \o <<Lit(Q)>>

RECURSIVE RunLength(_, _, _)
\* how many tokens of S follow each other in text from position i on
RunLength(S, text, i) ==
    IF i <= Len(text) /\ text[i] \in S THEN 1 + RunLength(S, text, i + 1) ELSE 0

RECURSIVE MatchFrom(_, _, _, _), Greedy(_, _, _, _, _, _)
\* the position after the match of pat[k..] at position i of text, 0 if none
MatchFrom(pat, k, text, i) ==
    IF k > Len(pat) THEN i
    ELSE LET e == pat[k] IN
         CASE e.k = "one" ->
                IF i <= Len(text) /\ text[i] \in e.s
                THEN MatchFrom(pat, k + 1, text, i + 1)
                ELSE 0
           [] e.k = "eos" ->
                IF i = Len(text) + 1 \/ (i = Len(text) /\ text[i] = NL)
                THEN MatchFrom(pat, k + 1, text, i)
                ELSE 0
           [] e.k = "plus" -> Greedy(pat, k, text, i, RunLength(e.s, text, i), 1)
           [] e.k = "star" -> Greedy(pat, k, text, i, RunLength(e.s, text, i), 0)

\* a quantifier takes n tokens, then fewer, down to least, until the rest matches
Greedy(pat, k, text, i, n, least) ==
    IF n < least THEN 0
    ELSE LET r == MatchFrom(pat, k + 1, text, i + n) IN
         IF r # 0 THEN r ELSE Greedy(pat, k, text, i, n - 1, least)

\* the start positions of the matches of pat in text
Occurrences(pat, text) == {i \in 1..Len(text) : MatchFrom(pat, 1, text, i) # 0}

RECURSIVE SubFrom(_, _, _, _)
SubFrom(pat, repl, text, pos) ==
    IF pos > Len(text) THEN <<>>
    ELSE LET e == MatchFrom(pat, 1, text, pos) IN
         IF e # 0 THEN repl \o SubFrom(pat, repl, text, e)
         ELSE <<text[pos]>> \o SubFrom(pat, repl, text, pos + 1)

RECURSIVE FirstFrom(_, _, _, _)
FirstFrom(pat, repl, text, pos) ==
    IF pos > Len(text) THEN <<>>
    ELSE LET e == MatchFrom(pat, 1, text, pos) IN
         IF e # 0 THEN repl \o SubSeq(text, e, Len(text))
         ELSE <<text[pos]>> \o FirstFrom(pat, repl, text, pos + 1)

\* a faulty re.sub that stops after the first match, as with count=1
ReSubFirst(pat, repl, text) == FirstFrom(pat, repl, text, 1)

\* re.sub(pattern, replacement, text): every non-overlapping match, left to right
ReSub(pat, repl, text) == SubFrom(pat, repl, text, 1)

----------------------------------------------------------------------------
(* The target files and the seven replace calls *)

DockerfileDeploy == "Dockerfile.deploy"
Dockerfile == "Dockerfile"
CargoToml == "Cargo.toml"
OapigenPs1 == "oapigen.ps1"
OapigenSh == "oapigen.sh"

Files == {DockerfileDeploy, Dockerfile, CargoToml, OapigenPs1, OapigenSh}

\* a rule is the source line of its replace call
Rules == {20, 21, 22, 26, 27, 29, 30}
ScriptOrder == <<20, 21, 22, 26, 27, 29, 30>>

\* faulty targets: line 27 copied from line 29 with its path
RulePathCopied(l) ==
    CASE l = 20 -> DockerfileDeploy
      [] l = 21 -> Dockerfile
      [] l = 22 -> CargoToml
      [] l = 26 -> OapigenPs1
      [] l \in {27, 29, 30} -> OapigenSh

\* the first argument of the call at line l
RulePath(l) ==
    CASE l = 20 -> DockerfileDeploy
      [] l = 21 -> Dockerfile
      [] l = 22 -> CargoToml
      [] l \in {26, 27} -> OapigenPs1
      [] l \in {29, 30} -> OapigenSh

\* faulty patterns: line 30 copied from line 29 with its pattern
RulePatternCopied(l) ==
    CASE l \in {20, 21} -> LabelPattern
      [] l = 22 -> CargoPattern
      [] l = 26 -> Ps1GenPattern
      [] l = 27 -> Ps1SpecPattern
      [] l \in {29, 30} -> ShGenPattern

\* the second argument of the call at line l
RulePattern(l) ==
    CASE l \in {20, 21} -> LabelPattern
      [] l = 22 -> CargoPattern
      [] l = 26 -> Ps1GenPattern
      [] l = 27 -> Ps1SpecPattern
      [] l = 29 -> ShGenPattern
      [] l = 30 -> ShSpecPattern

\* faulty keys: line 29 formats version.version
RuleKeyCopied(l) ==
    CASE l \in {20, 21, 22, 29} -> "version"
      [] l = 26 -> "oapigen-version"
      [] l \in {27, 30} -> "oapi-spec"

\* the configuration key the f-string of the call at line l reads
RuleKey(l) ==
    CASE l \in {20, 21, 22} -> "version"
      [] l \in {26, 29} -> "oapigen-version"
      [] l \in {27, 30} -> "oapi-spec"

\* faulty templates: the label of lines 20 and 21 without its quotes
ReplacementUnquoted(l, v) ==
    CASE l \in {20, 21} -> <<LABEL, VERSION, EQ>> \o v
      [] l = 22 -> <<VERSION, SP, EQ, SP, Q>> \o v \o <<Q>>
      [] l = 26 -> <<DOLLAR, GENVER, EQ, Q>> \o v \o <<Q>>
      [] l = 27 -> <<DOLLAR, SPECPATH, EQ, Q>> \o v \o <<Q>>
      [] l = 29 -> <<GENVER, EQ, Q>> \o v \o <<Q>>
      [] l = 30 -> <<SPECPATH, EQ, Q>> \o v \o <<Q>>

\* the third argument of the call at line l, for the configuration value v
Replacement(l, v) ==
    CASE l \in {20, 21} -> <<LABEL, VERSION, EQ, Q>> \o v \o <<Q>>
      [] l = 22 -> <<VERSION, SP, EQ, SP, Q>> \o v \o <<Q>>
      [] l = 26 -> <<DOLLAR, GENVER, EQ, Q>> \o v \o <<Q>>
      [] l = 27 -> <<DOLLAR, SPECPATH, EQ, Q>> \o v \o <<Q>>
      [] l = 29 -> <<GENVER, EQ, Q>> \o v \o <<Q>>
      [] l = 30 -> <<SPECPATH, EQ, Q>> \o v \o <<Q>>

\* the statement that follows the statement at line l; 31 is the end of the script
NextLine(l) ==
    CASE l = 16 -> 20
      [] l = 20 -> 21
      [] l = 21 -> 22
      [] l = 22 -> 24
      [] l = 24 -> 26
      [] l = 26 -> 27
      [] l = 27 -> 29
      [] l = 29 -> 30
      [] l = 30 -> 31

Updated == "Updated"
NoChanges == "No changes needed in"
NoLine == [msg |-> "", path |-> ""]

\* a faulty replace that writes and prints "Updated" whatever the text
replaceUnconditional(path, pat, repl, d) ==
    [disk |-> [d EXCEPT ![path] = ReSub(pat, repl, d[path])], wrote |-> TRUE,
     line |-> [msg |-> Updated, path |-> path]]

\* a faulty replace with the two messages exchanged
replaceMessagesSwapped(path, pat, repl, d) ==
    LET text == d[path]
        new_text == ReSub(pat, repl, text)
    IN  IF text # new_text
        THEN [disk |-> [d EXCEPT ![path] = new_text], wrote |-> TRUE,
              line |-> [msg |-> NoChanges, path |-> path]]
        ELSE [disk |-> d, wrote |-> FALSE,
              line |-> [msg |-> Updated, path |-> path]]

\* replace(file, pattern, replacement) on the disk d: the disk after the call,
\* whether write_text was called, and the line printed
replace(path, pat, repl, d) ==
    LET text == d[path]
        new_text == ReSub(pat, repl, text)
    IN  IF text # new_text
        THEN [disk |-> [d EXCEPT ![path] = new_text], wrote |-> TRUE,
              line |-> [msg |-> Updated, path |-> path]]
        ELSE [disk |-> d, wrote |-> FALSE,
              line |-> [msg |-> NoChanges, path |-> path]]

\* what write_text may leave behind when it raises: open("w") failed and the file
\* is as it was, or the file was truncated and part of the new text was written
FailedWrite(text, new_text) ==
    {text} \cup {SubSeq(new_text, 1, n) : n \in 0..(Len(new_text) - 1)}

----------------------------------------------------------------------------
(* The configuration: variables.toml *)

\* the value of a key the file does not hold
Missing == <<"KeyError">>

Toml(v, gen, spec) ==
    [file |-> "ok", openapi |-> TRUE,
     keys |-> [k \in {"version", "oapigen-version", "oapi-spec"} |->
                 CASE k = "version" -> v
                   [] k = "oapigen-version" -> gen
                   [] k = "oapi-spec" -> spec]]

VersionValues == {V111, V211, V12}
OapiValues == {V111, V211}

GoodConfigs == {Toml(v, g, s) : v \in VersionValues, g \in OapiValues, s \in {V111, V111x}}

BadConfigs ==
    LET c == Toml(V211, V211, V211) IN
    { [c EXCEPT !.file = "absent"],
      [c EXCEPT !.file = "malformed"],
      [c EXCEPT !.keys["version"] = Missing],
      [c EXCEPT !.openapi = FALSE],
      [c EXCEPT !.keys["oapigen-version"] = Missing],
      [c EXCEPT !.keys["oapi-spec"] = Missing] }

----------------------------------------------------------------------------
(* The contents the target files start with *)

Line(t) == t \o <<NL>>

LabelLine(v) == Line(<<LABEL, VERSION, EQ, Q>> \o v \o <<Q>>)

FileLines(f) ==
    CASE f \in {DockerfileDeploy, Dockerfile} ->
           { LabelLine(V111), LabelLine(V1211), LabelLine(V12), Line(<<ANYCHAR>>) }
      [] f = CargoToml ->
           { Line(<<VERSION, SP, EQ, SP, Q>> \o V111 \o <<Q>>),
             Line(<<VERSION, EQ, Q>> \o V1211 \o <<Q>>),
             \* the tail of a longer key, as in rust-version  =  "2.1.1"
             Line(<<ANYCHAR, VERSION, SP, SP, EQ, SP, SP, Q>> \o V211 \o <<Q>>),
             Line(<<VERSION, SP, EQ, SP>> \o V111) }
      [] f = OapigenPs1 ->
           { Line(<<DOLLAR, GENVER, EQ, Q>> \o V111 \o <<Q>>),
             Line(<<DOLLAR, SPECPATH, EQ, Q>> \o V111 \o <<Q>>),
             \* the marker as the last text of the file, no newline after it
             <<DOLLAR, GENVER, EQ, Q>> \o V111 \o <<Q>> }
      [] f = OapigenSh ->
           { Line(<<GENVER, EQ, Q>> \o V111 \o <<Q>>),
             Line(<<SPECPATH, EQ, Q>> \o V111 \o <<Q>>),
             Line(<<GENVER, EQ, Q>> \o V1211 \o <<Q, SP, SPECPATH, EQ, Q>> \o V211 \o <<Q>>),
             Line(<<ANYCHAR>>) }

RECURSIVE Flatten(_)
Flatten(ls) == IF ls = <<>> THEN <<>> ELSE Head(ls) \o Flatten(Tail(ls))

\* the texts of n lines the file f may start with
Texts(f, n) == {Flatten(ls) : ls \in [1..n -> FileLines(f)]}

\* how many lines each file starts with: MaxLines at most in all
LineCounts ==
    {c \in [Files -> 0..MaxLines] :
        c[DockerfileDeploy] + c[Dockerfile] + c[CargoToml] + c[OapigenPs1] + c[OapigenSh]
            <= MaxLines}

MakeDisk(a, b, c, d, e) ==
    [f \in Files |->
        CASE f = DockerfileDeploy -> a
          [] f = Dockerfile -> b
          [] f = CargoToml -> c
          [] f = OapigenPs1 -> d
          [] f = OapigenSh -> e]

DisksOf(n) ==
    {MakeDisk(a, b, c, d, e) :
        a \in Texts(DockerfileDeploy, n[DockerfileDeploy]),
        b \in Texts(Dockerfile, n[Dockerfile]),
        c \in Texts(CargoToml, n[CargoToml]),
        d \in Texts(OapigenPs1, n[OapigenPs1]),
        e \in Texts(OapigenSh, n[OapigenSh])}

Disks == UNION {DisksOf(n) : n \in LineCounts}

----------------------------------------------------------------------------
(* The script *)

NoOutput == [l \in Rules |-> NoLine]
Zero == [f \in Files |-> 0]

Start(configs) ==
    /\ cfg \in configs
    /\ disk \in Disks
    /\ disk0 = disk
    /\ pre = disk
    /\ pc = 16
    /\ err = "none"
    /\ run = 1
    /\ out = NoOutput
    /\ reads = Zero
    /\ writes = Zero
    /\ reordered = FALSE

Init == Start(GoodConfigs \cup BadConfigs)

Running == err = "none" /\ pc # 31

Raise(e) ==
    /\ err' = e
    /\ UNCHANGED <<cfg, disk, disk0, pre, pc, run, out, reads, writes, reordered>>

Goto(l) ==
    /\ pc' = l
    /\ UNCHANGED <<cfg, disk, disk0, pre, err, run, out, reads, writes, reordered>>

\* lines 16-18: open and parse variables.toml, read version.version
LoadConfiguration ==
    /\ Running /\ pc = 16
    /\ CASE cfg.file = "absent" -> Raise("ConfigNotFound")
         [] cfg.file = "malformed" -> Raise("ParseError")
         [] cfg.file = "ok" /\ cfg.keys["version"] = Missing -> Raise("KeyError")
         [] OTHER -> Goto(NextLine(16))

\* line 24: oapid = file["openapi"]
ReadOpenapiTable ==
    /\ Running /\ pc = 24
    /\ IF cfg.openapi THEN Goto(NextLine(24)) ELSE Raise("KeyError")

\* the call of line l returns: the file is read, written if the text changed,
\* and one line is printed
Returns(l, next) ==
    LET r == replace(RulePath(l), RulePattern(l), Replacement(l, cfg.keys[RuleKey(l)]), disk)
    IN  /\ disk' = r.disk
        /\ reads' = [reads EXCEPT ![RulePath(l)] = @ + 1]
        /\ writes' = [writes EXCEPT ![RulePath(l)] = @ + (IF r.wrote THEN 1 ELSE 0)]
        /\ out' = [out EXCEPT ![l] = r.line]
        /\ pc' = next
        /\ UNCHANGED <<cfg, disk0, pre, err, run>>

\* the f-string of line l raises KeyError: replace is not called
ArgumentFails(l) ==
    /\ cfg.keys[RuleKey(l)] = Missing
    /\ Raise("KeyError")

\* read_text raises: the file is missing or cannot be read
ReadFails(l) ==
    /\ cfg.keys[RuleKey(l)] # Missing
    /\ Raise("ReadError")

\* write_text raises after the file was read and the text has changed
WriteFails(l) ==
    LET r == replace(RulePath(l), RulePattern(l), Replacement(l, cfg.keys[RuleKey(l)]), disk)
    IN  /\ cfg.keys[RuleKey(l)] # Missing
        /\ r.wrote
        /\ \E left \in FailedWrite(disk[RulePath(l)], r.disk[RulePath(l)]) :
              disk' = [disk EXCEPT ![RulePath(l)] = left]
        /\ reads' = [reads EXCEPT ![RulePath(l)] = @ + 1]
        /\ err' = "WriteError"
        /\ UNCHANGED <<cfg, disk0, pre, pc, run, out, writes, reordered>>

\* lines 20-22 and 26-30: one replace call
ApplyRule ==
    /\ Running /\ pc \in Rules
    /\ \/ /\ cfg.keys[RuleKey(pc)] # Missing
          /\ Returns(pc, NextLine(pc))
          /\ UNCHANGED reordered
       \/ ArgumentFails(pc)
       \/ ReadFails(pc)
       \/ WriteFails(pc)

\* the script is run again, the configuration file unchanged
Rerun ==
    /\ err = "none" /\ pc = 31 /\ run = 1
    /\ run' = 2
    /\ pc' = 16
    /\ pre' = disk
    /\ out' = NoOutput
    /\ reads' = Zero
    /\ writes' = Zero
    /\ UNCHANGED <<cfg, disk, disk0, err, reordered>>

Next == LoadConfiguration \/ ReadOpenapiTable \/ ApplyRule \/ Rerun

Spec == Init /\ [][Next]_vars

----------------------------------------------------------------------------
(* A complete run as a function of the disk and the configuration *)

RECURSIVE RunLines(_, _, _)
\* the disk and the output after the replace calls of the lines ls, in that order
RunLines(s, c, ls) ==
    IF ls = <<>> THEN s
    ELSE LET l == Head(ls)
             r == replace(RulePath(l), RulePattern(l), Replacement(l, c.keys[RuleKey(l)]), s.disk)
         IN  RunLines([disk |-> r.disk, out |-> [s.out EXCEPT ![l] = r.line]], c, Tail(ls))

\* lines 20-30 on the disk d under the configuration c, no call failing
Propagate(d, c) == RunLines([disk |-> d, out |-> NoOutput], c, ScriptOrder)

----------------------------------------------------------------------------
(* The substitution calls in any order *)

\* one of the calls not made yet is made next
ReorderedCall ==
    /\ Running /\ pc = 20
    /\ \E l \in Rules :
          /\ out[l] = NoLine
          /\ Returns(l, IF \A m \in Rules \ {l} : out[m] # NoLine THEN 31 ELSE 20)
          /\ reordered' = (reordered \/ \E m \in Rules : m < l /\ out[m] = NoLine)

PermConfigs == {Toml(V211, V211, V111x), Toml(V12, V111, V211)}

InitPerm == Start(PermConfigs)

NextPerm == LoadConfiguration \/ ReorderedCall

SpecPerm == InitPerm /\ [][NextPerm]_vars

----------------------------------------------------------------------------
(* Properties *)

\* the text of the match of pat that starts at position i of text
MatchText(pat, text, i) == SubSeq(text, i, MatchFrom(pat, 1, text, i) - 1)

\* the positions of text where the word w stands
WordAt(w, text) ==
    {i \in 1..Len(text) : i + Len(w) - 1 <= Len(text) /\ SubSeq(text, i, i + Len(w) - 1) = w}

\* text holds a match of pat that is not the word w
HoldsOther(pat, w, text) == \E i \in Occurrences(pat, text) : MatchText(pat, text, i) # w

\* the first run has completed
Done1 == err = "none" /\ pc = 31 /\ run = 1

LabelOf(v) == <<LABEL, VERSION, EQ, Q>> \o v \o <<Q>>

\* C1: when a container descriptor held LABEL version="<d>.<d>.<d>" with a value
\* other than the configured version.version V, then after a complete run every
\* label of that shape in it is LABEL version="V", it holds LABEL version="V" at
\* least as often as it held such labels, and "Updated <path>" was printed for it.
C1_RoundTrip ==
    Done1 =>
        \A l \in {20, 21} :
            LET f == IF l = 20 THEN DockerfileDeploy ELSE Dockerfile
                want == LabelOf(cfg.keys["version"])
            IN  HoldsOther(LabelPattern, want, disk0[f]) =>
                    /\ out[l] = [msg |-> Updated, path |-> f]
                    /\ ~HoldsOther(LabelPattern, want, disk[f])
                    /\ Cardinality(WordAt(want, disk[f]))
                          >= Cardinality(Occurrences(LabelPattern, disk0[f]))

\* a run over a Dockerfile with two labels of different old values has completed
C1_Witness ==
    /\ Done1
    /\ Cardinality(Occurrences(LabelPattern, disk0[Dockerfile])) = 2
    /\ HoldsOther(LabelPattern, LabelOf(V111), disk0[Dockerfile])
    /\ cfg.keys["version"] = V211
    /\ out[21].msg = Updated

\* C2: when loading the configuration fails (variables.toml absent, malformed, or
\* a required field missing), every target file has the content it had before
\* the run and no "Updated" line has been printed.
C2_NoPartialApplication ==
    err \in {"ConfigNotFound", "ParseError", "KeyError"} =>
        /\ disk = pre
        /\ \A l \in Rules : out[l].msg # Updated

\* C3: in a second run after a complete first run, the configuration unchanged,
\* no file is written and every line printed is "No changes needed in <path>".
C3_Idempotent ==
    run = 2 =>
        /\ \A f \in Files : writes[f] = 0
        /\ disk = pre
        /\ \A l \in Rules : out[l].msg \in {"", NoChanges}
        /\ (err = "none" /\ pc = 31) => \A l \in Rules : out[l].msg = NoChanges

\* the second run has completed after a first run that rewrote three files
C3_Witness ==
    /\ run = 2 /\ err = "none" /\ pc = 31
    /\ Cardinality({f \in Files : disk0[f] # disk[f]}) >= 2
    /\ disk0[OapigenSh] # disk[OapigenSh]

\* the good configurations that differ from c in the key k and nowhere else
DifferOnlyIn(c, k) ==
    {c2 \in GoodConfigs :
        /\ c2.keys[k] # c.keys[k]
        /\ \A j \in DOMAIN c.keys : j # k => c2.keys[j] = c.keys[j]}

\* C4 as stated: a run whose configuration differs only in the value rule i uses
\* ends with every file other than rule i's own target as in this run.
C4_OnlyOwnTarget ==
    Done1 =>
        \A l \in Rules : \A c2 \in DifferOnlyIn(cfg, RuleKey(l)) :
            \A f \in Files \ {RulePath(l)} : Propagate(disk0, c2).disk[f] = disk[f]

FilesOfKey(k) ==
    CASE k = "version" -> {DockerfileDeploy, Dockerfile, CargoToml}
      [] k = "oapigen-version" -> {OapigenPs1, OapigenSh}
      [] k = "oapi-spec" -> {OapigenPs1, OapigenSh}

\* C4 amended: a run whose configuration differs only in one value ends with every
\* file as in this run, except the target files of the rules that use that value:
\* the two Dockerfiles and Cargo.toml for version.version, the two generator
\* scripts for openapi.oapigen-version and for openapi.oapi-spec.
C4_OnlyTargetsOfTheValue ==
    Done1 =>
        \A k \in DOMAIN cfg.keys : \A c2 \in DifferOnlyIn(cfg, k) :
            \A f \in Files \ FilesOfKey(k) : Propagate(disk0, c2).disk[f] = disk[f]

\* a run has completed, and another version.version gives two other files
C4_Witness ==
    /\ Done1
    /\ \E c2 \in DifferOnlyIn(cfg, "version") :
          /\ Propagate(disk0, c2).disk[Dockerfile] # disk[Dockerfile]
          /\ Propagate(disk0, c2).disk[CargoToml] # disk[CargoToml]

\* $OPENAPI_GENERATOR_VERSION="<d>.<d>.<d>" and $SPEC_PATH="<d>.<d>.<d>", the
\* dollar sign a character of the marker
Ps1Marker(word) == <<Lit(DOLLAR), Lit(word), Lit(EQ), Lit(Q)>> \o SemVer \o <<Lit(Q)>>

Ps1MarkerOf(word, v) == <<DOLLAR, word, EQ, Q>> \o v \o <<Q>>

\* C5: when oapigen.ps1 held $OPENAPI_GENERATOR_VERSION="<d>.<d>.<d>" (or
\* $SPEC_PATH="<d>.<d>.<d>") with a value other than the configured one, then
\* after a complete run the marker carries the configured value and
\* "Updated oapigen.ps1" was printed for that rule.
C5_Ps1MarkerUpdated ==
    Done1 =>
        \A l \in {26, 27} :
            LET word == IF l = 26 THEN GENVER ELSE SPECPATH
                key == IF l = 26 THEN "oapigen-version" ELSE "oapi-spec"
                want == Ps1MarkerOf(word, cfg.keys[key])
            IN  HoldsOther(Ps1Marker(word), want, disk0[OapigenPs1]) =>
                    /\ out[l] = [msg |-> Updated, path |-> OapigenPs1]
                    /\ ~HoldsOther(Ps1Marker(word), want, disk[OapigenPs1])
                    /\ WordAt(want, disk[OapigenPs1]) # {}

\* the lines of the script before line k
LinesBefore(k) == SelectSeq(ScriptOrder, LAMBDA l : l < k)

\* C6: when the replace call of rule k fails, no later rule has run and the files
\* of the later rules have their content of before the run, the files the
\* earlier rules rewrote are in their new state, and the file of rule k is as it
\* was before the call or holds the whole new text.
C6_FailStop ==
    (err \in {"ReadError", "WriteError"}) =>
        LET before == RunLines([disk |-> pre, out |-> NoOutput], cfg, LinesBefore(pc)).disk
            after == RunLines([disk |-> pre, out |-> NoOutput], cfg, Append(LinesBefore(pc), pc)).disk
        IN  /\ \A l \in Rules : l >= pc => out[l] = NoLine
            /\ \A l \in Rules : l > pc => disk[RulePath(l)] = pre[RulePath(l)]
            /\ \A f \in Files \ {RulePath(pc)} : disk[f] = before[f]
            /\ disk[RulePath(pc)] \in {before[RulePath(pc)], after[RulePath(pc)]}

\* C7: when the seven calls have been made in any order, every file holds what
\* the script's own order leaves in it, and every rule has printed the line it
\* prints in the script's own order.
C7_OrderInsensitive ==
    (err = "none" /\ pc = 31) =>
        /\ disk = Propagate(disk0, cfg).disk
        /\ out = Propagate(disk0, cfg).out

\* the calls were made out of the script's order, both rules of oapigen.sh wrote
C7_Witness ==
    /\ err = "none" /\ pc = 31
    /\ reordered
    /\ writes[OapigenSh] = 2
    /\ writes[CargoToml] = 1

\* C8 as stated: the target paths are pairwise distinct, each file is read by one
\* rule and written by at most one.
C8_DistinctTargets ==
    /\ \A f \in Files : reads[f] <= 1 /\ writes[f] <= 1
    /\ (err = "none" /\ pc = 31) => \A f \in Files : reads[f] = 1

RulesOn(f) == IF f \in {OapigenPs1, OapigenSh} THEN 2 ELSE 1

\* C8 amended: the target paths are distinct except that each generator script is
\* the target of two rules: in one run Dockerfile.deploy, Dockerfile and
\* Cargo.toml are each read by exactly one rule and written at most once, and
\* oapigen.ps1 and oapigen.sh are each read by exactly two rules and written at
\* most twice, never more often than read.
C8_TwoRulesPerScript ==
    /\ \A f \in Files : reads[f] <= RulesOn(f) /\ writes[f] <= reads[f]
    /\ (err = "none" /\ pc = 31) => \A f \in Files : reads[f] = RulesOn(f)

\* a run has completed in which the rule of line 30 read what line 29 had written
C8_Witness ==
    /\ err = "none" /\ pc = 31
    /\ writes[OapigenSh] = 2
    /\ reads[Dockerfile] = 1

Sum(n) == n[DockerfileDeploy] + n[Dockerfile] + n[CargoToml] + n[OapigenPs1] + n[OapigenSh]

ManifestOf(v) == <<VERSION, SP, EQ, SP, Q>> \o v \o <<Q>>

\* C10: after a complete run every text of the shape version = "<d>.<d>.<d>" in
\* Cargo.toml (any whitespace around "=", the tail of a longer key included) is
\* version = "V" with V the configured version.version, Cargo.toml holds
\* version = "V" at least as often as it held texts of that shape, and so no two
\* of them hold different values.
C10_EveryManifestVersion ==
    Done1 =>
        LET want == ManifestOf(cfg.keys["version"])
            now == disk[CargoToml]
        IN  /\ ~HoldsOther(CargoPattern, want, now)
            /\ Cardinality(WordAt(want, now))
                  >= Cardinality(Occurrences(CargoPattern, disk0[CargoToml]))
            /\ \A i, j \in Occurrences(CargoPattern, now) :
                  MatchText(CargoPattern, now, i) = MatchText(CargoPattern, now, j)

\* a run has completed over a Cargo.toml with two version fields of different
\* values, one of them the tail of a longer key
C10_Witness ==
    /\ Done1
    /\ LET was == disk0[CargoToml]
       IN  /\ Cardinality(Occurrences(CargoPattern, was)) = 2
           /\ \E i, j \in Occurrences(CargoPattern, was) :
                 /\ MatchText(CargoPattern, was, i) # MatchText(CargoPattern, was, j)
                 /\ i > 1 /\ was[i - 1] = ANYCHAR
    /\ cfg.keys["version"] = V211
    /\ out[22].msg = Updated

====
